---- MODULE Spec2Model ----
(***************************************************************************)
(* The n-ary tree of a_ntree: records (RawNode, src/src/base.rs) that own  *)
(* their children through Rc and refer to their parent through Weak, and   *)
(* the handles (Node, src/src/lib.rs) a caller holds on them.              *)
(*                                                                         *)
(* RawNode is modelled from src/src/base.rs, the version whose add_child   *)
(* checks uniqueness and whose add_child / remove_node return a result     *)
(* (src/src/lib.rs still carries an older private copy of RawNode, without *)
(* the check and without results).  A record is a number of Rec; its       *)
(* fields are the functions value, children and parent.  Rc is modelled by *)
(* counting: a record is alive while a handle or a child-list slot of an   *)
(* alive record holds it.  A recursion that never returns and a panic end  *)
(* the program: no call follows them.                                      *)
(***************************************************************************)
EXTENDS Integers, Sequences, FiniteSets

MaxRec == 3
MaxVal == 2
MaxKids == 2
MaxHandles == 1

Rec == 1..MaxRec
Val == 1..MaxVal

\* Option::None, and the Weak::new() of a record without parent.
None == 0
\* The result of a recursion that never returns (it ends in a stack overflow).
Diverges == MaxRec + 1

VARIABLES
    value,      \* value[r]: the value of record r, 0 while r is not allocated
    children,   \* children[r]: the Vec<Rc<RawNode>> of record r
    parent,     \* parent[r]: the Weak of record r: None or a record, alive or not
    alive,      \* the records whose strong count is positive
    held,       \* held[r]: the number of Node handles the caller holds on r
    used,       \* the number of records allocated so far
    room,       \* the number of handles the caller can hold on one record
    last        \* the last call: its name, target, argument and result

vars == <<value, children, parent, alive, held, used, room, last>>

\* The records as the traversals read them.
Heap == [value |-> value, children |-> children, parent |-> parent, alive |-> alive]

----------------------------------------------------------------------------
(* Rc and Weak *)

\* Weak::upgrade: the record, while it is alive.
upgrade(H, w) == IF w \in H.alive THEN w ELSE None

\* RawNode::parent
parentOf(H, x) == upgrade(H, H.parent[x])

\* The number of child-list slots of the records of live that hold r.
RECURSIVE Slots(_, _, _)
Slots(kids, live, r) ==
    IF live = {} THEN 0
    ELSE LET p == CHOOSE q \in live : TRUE
         IN Cardinality({i \in DOMAIN kids[p] : kids[p][i] = r})
            + Slots(kids, live \ {p}, r)

\* StrongCount with the parent references counted as holders, as if a child
\* held an Rc on its parent.
StrongCountWithParents(kids, live, h, r) ==
    h[r] + Slots(kids, live, r) + Cardinality({c \in live : parent[c] = r})

\* Rc::strong_count of r: the handles on it and the slots that hold it.
StrongCount(kids, live, h, r) == h[r] + Slots(kids, live, r)

\* Dropping an Rc whose count reaches 0 drops the record, and with it the Rcs
\* of its child list: the records that stay alive, given the handles h and
\* the child lists kids.
RECURSIVE Survivors(_, _, _)
Survivors(kids, live, h) ==
    LET dead == {r \in live : StrongCount(kids, live, h, r) = 0}
    IN IF dead = {} THEN live ELSE Survivors(kids, live \ dead, h)

----------------------------------------------------------------------------
(* The traversals of RawNode *)

Kids(H, x) == {H.children[x][i] : i \in DOMAIN H.children[x]}

\* The records reachable from the records of S by child links, S included.
RECURSIVE Close(_, _)
Close(H, S) ==
    LET T == S \cup UNION {Kids(H, y) : y \in S}
    IN IF T = S THEN S ELSE Close(H, T)

\* The subtree of x: x and its descendants.
Subtree(H, x) == Close(H, {x})

\* A walk down the child links from x comes back to a record it left.
Loops(H, x) == \E y \in Subtree(H, x) : y \in Close(H, Kids(H, y))

\* RawNode::get_root: up the parent references to a record without parent;
\* on a cycle of parent references the recursion never returns.
RECURSIVE get_root_from(_, _, _)
get_root_from(H, x, seen) ==
    IF parentOf(H, x) = None THEN x
    ELSE IF parentOf(H, x) \in seen THEN Diverges
    ELSE get_root_from(H, parentOf(H, x), seen \cup {parentOf(H, x)})

get_root(H, x) == get_root_from(H, x, {x})

\* Rc<RawNode> == Rc<RawNode>: PartialEq for RawNode compares the values.
eq(H, a, b) == H.value[a] = H.value[b]

\* The first test of RawNode::as_array: self is pushed when it has no parent
\* or a parent equal to p.
PushesSelf(H, x, p) == parentOf(H, x) = None \/ eq(H, parentOf(H, x), p)

\* RawNode::as_array on a subtree without loops: self (see PushesSelf), then
\* its children, then the arrays of the children.
RECURSIVE as_array(_, _, _), as_array_each(_, _, _, _)
as_array(H, x, p) ==
    (IF PushesSelf(H, x, p) THEN <<x>> ELSE <<>>)
        \o H.children[x] \o as_array_each(H, H.children[x], 1, p)
as_array_each(H, kids, i, p) ==
    IF i > Len(kids) THEN <<>>
    ELSE as_array(H, kids[i], p) \o as_array_each(H, kids, i + 1, p)

\* RawNode::unique_nodes, both subtrees without loops.
unique_nodes(H, s, other) ==
    LET my_nodes == as_array(H, s, s)
        other_nodes == as_array(H, other, s)
        my_values == {H.value[my_nodes[i]] : i \in DOMAIN my_nodes}
    IN ~ \E i \in DOMAIN other_nodes : H.value[other_nodes[i]] \in my_values

\* RawNode::find: self when it holds v, else the first result of the
\* children in order; a child that is on the path of the search starts the
\* same search again, which never returns.
RECURSIVE find_from(_, _, _, _), find_map(_, _, _, _, _)
find_from(H, x, v, path) ==
    IF H.value[x] = v THEN x ELSE find_map(H, H.children[x], 1, v, path \cup {x})
find_map(H, kids, i, v, path) ==
    IF i > Len(kids) THEN None
    ELSE IF kids[i] \in path THEN Diverges
    ELSE LET r == find_from(H, kids[i], v, path)
         IN IF r # None THEN r ELSE find_map(H, kids, i + 1, v, path)

find(H, x, v) == find_from(H, x, v, {})

\* vec.iter().position(|node| node.value() == value): None when there is none.
position(H, kids, v) ==
    IF \E i \in DOMAIN kids : H.value[kids[i]] = v
    THEN CHOOSE i \in DOMAIN kids :
            H.value[kids[i]] = v /\ \A j \in 1..(i - 1) : H.value[kids[j]] # v
    ELSE None

\* Vec::remove
remove(kids, idx) ==
    [i \in 1..(Len(kids) - 1) |-> IF i < idx THEN kids[i] ELSE kids[i + 1]]

\* The decision of RawNode::add_child on target s and candidate c.
Accepts(H, s, c) == unique_nodes(H, get_root(H, s), c)

\* RawNode::add_child never returns: get_root or as_array runs into a loop.
AddOverflows(H, s, c) ==
    \/ get_root(H, s) = Diverges
    \/ Loops(H, get_root(H, s))
    \/ Loops(H, c)

----------------------------------------------------------------------------
(* The calls *)

Call(op, self, arg, res, node) ==
    [op |-> op, self |-> self, arg |-> arg, res |-> res, node |-> node]

\* A stack overflow or a panic ends the program.
Running == last.res \notin {"overflow", "panic"}

Handles == {r \in Rec : held[r] > 0}

\* Node::from without the Rc::clone: the handle returned is not counted.
KeepNoClone(h, r) == h

\* The caller keeps the handle a call returns on r while it has room for it,
\* and drops it at once otherwise.
Keep(h, r) == IF h[r] < room THEN [h EXCEPT ![r] = @ + 1] ELSE h

\* The state after the child lists become kids and the handles h: the
\* records no Rc holds any more are dropped.
Settle(kids, h) ==
    LET live == Survivors(kids, alive, h)
    IN /\ alive' = live
       /\ held' = h
       /\ children' = [r \in Rec |-> IF r \in live THEN kids[r] ELSE <<>>]
       /\ parent' = [r \in Rec |-> IF r \in live THEN parent[r] ELSE None]
       /\ value' = [r \in Rec |-> IF r \in live THEN value[r] ELSE 0]

\* A call that returns res (and the record node) and changes no record.
Return(op, self, arg, res, node) ==
    /\ last' = Call(op, self, arg, res, node)
    /\ held' = IF res = "some" THEN Keep(held, node) ELSE held
    /\ UNCHANGED <<value, children, parent, alive, used, room>>

Init ==
    /\ value = [r \in Rec |-> 0]
    /\ children = [r \in Rec |-> <<>>]
    /\ parent = [r \in Rec |-> None]
    /\ alive = {}
    /\ held = [r \in Rec |-> 0]
    /\ used = 0
    /\ room = MaxHandles
    /\ last = Call("init", None, None, "unit", None)

\* Node::new
New(v) ==
    /\ Running
    /\ used < MaxRec
    /\ LET r == used + 1
       IN /\ used' = r
          /\ value' = [value EXCEPT ![r] = v]
          /\ alive' = alive \cup {r}
          /\ held' = [held EXCEPT ![r] = 1]
          /\ last' = Call("new", None, v, "some", r)
    /\ UNCHANGED <<children, parent, room>>

\* add_child with the push moved before the test of unique_nodes.
AddChildPushFirst(s, c) ==
    /\ Running
    /\ s \in Handles /\ c \in Handles
    /\ Len(children[s]) < MaxKids
    /\ IF AddOverflows(Heap, s, c)
       THEN Return("add_child", s, c, "overflow", None)
       ELSE /\ children' = [children EXCEPT ![s] = Append(@, c)]
            /\ parent' = [parent EXCEPT ![c] = s]
            /\ last' = Call("add_child", s, c,
                            IF Accepts(Heap, s, c) THEN "true" ELSE "false", None)
            /\ UNCHANGED <<value, alive, held, used, room>>

\* RawNode::add_child, as Node::add_child calls it on two handles.
AddChild(s, c) ==
    /\ Running
    /\ s \in Handles /\ c \in Handles
    /\ Len(children[s]) < MaxKids
    /\ IF AddOverflows(Heap, s, c)
       THEN Return("add_child", s, c, "overflow", None)
       ELSE IF Accepts(Heap, s, c)
       THEN /\ children' = [children EXCEPT ![s] = Append(@, c)]
            /\ parent' = [parent EXCEPT ![c] = s]
            /\ last' = Call("add_child", s, c, "true", None)
            /\ UNCHANGED <<value, alive, held, used, room>>
       ELSE Return("add_child", s, c, "false", None)

\* Node::add_leaf: Node::new, then add_child; the new handle is dropped when
\* add_leaf returns, and with it the record that was not attached.
AddLeaf(s, v) ==
    /\ Running
    /\ s \in Handles
    /\ used < MaxRec
    /\ Len(children[s]) < MaxKids
    /\ LET c == used + 1
           H == [Heap EXCEPT !.value[c] = v, !.alive = @ \cup {c}]
       IN IF AddOverflows(H, s, c)
          THEN Return("add_leaf", s, v, "overflow", None)
          ELSE IF Accepts(H, s, c)
          THEN /\ used' = c
               /\ value' = [value EXCEPT ![c] = v]
               /\ alive' = alive \cup {c}
               /\ children' = [children EXCEPT ![s] = Append(@, c)]
               /\ parent' = [parent EXCEPT ![c] = s]
               /\ last' = Call("add_leaf", s, v, "true", c)
               /\ UNCHANGED <<held, room>>
          ELSE Return("add_leaf", s, v, "false", None)

\* Node::find
Find(x, v) ==
    /\ Running
    /\ x \in Handles
    /\ LET node == find(Heap, x, v)
       IN IF node = Diverges THEN Return("find", x, v, "overflow", None)
          ELSE IF node = None THEN Return("find", x, v, "none", None)
          ELSE Return("find", x, v, "some", node)

\* RawNode::remove_node, as Node::remove_node calls it.
RemoveNode(x, v) ==
    /\ Running
    /\ x \in Handles
    /\ LET node == find(Heap, x, v)
       IN IF node = Diverges THEN Return("remove_node", x, v, "overflow", None)
          ELSE IF node = None \/ parentOf(Heap, node) = None
          THEN Return("remove_node", x, v, "none", None)
          ELSE LET p == parentOf(Heap, node)
                   idx == position(Heap, children[p], v)
               IN IF idx = None
                  THEN Return("remove_node", x, v, "panic", None)
                  ELSE /\ Settle([children EXCEPT ![p] = remove(@, idx)],
                                 Keep(held, children[p][idx]))
                       /\ last' = Call("remove_node", x, v, "some", children[p][idx])
                       /\ UNCHANGED <<used, room>>

\* Node::get_root
GetRoot(x) ==
    /\ Running
    /\ x \in Handles
    /\ IF get_root(Heap, x) = Diverges
       THEN Return("get_root", x, None, "overflow", None)
       ELSE Return("get_root", x, None, "some", get_root(Heap, x))

\* Node::parent
Parent(x) ==
    /\ Running
    /\ x \in Handles
    /\ IF parentOf(Heap, x) = None
       THEN Return("parent", x, None, "none", None)
       ELSE Return("parent", x, None, "some", parentOf(Heap, x))

\* Node::children, of which the caller keeps the handle on the i-th child.
Children(x, i) ==
    /\ Running
    /\ x \in Handles
    /\ i \in DOMAIN children[x]
    /\ Return("children", x, i, "some", children[x][i])

\* A handle goes out of scope.
Drop(x) ==
    /\ Running
    /\ x \in Handles
    /\ Settle(children, [held EXCEPT ![x] = @ - 1])
    /\ last' = Call("drop", x, None, "unit", None)
    /\ UNCHANGED <<used, room>>

Next ==
    \/ \E v \in Val : New(v)
    \/ \E s \in Rec, c \in Rec : AddChild(s, c)
    \/ \E s \in Rec, v \in Val : AddLeaf(s, v)
    \/ \E x \in Rec, v \in Val : Find(x, v)
    \/ \E x \in Rec, v \in Val : RemoveNode(x, v)
    \/ \E x \in Rec : GetRoot(x)
    \/ \E x \in Rec : Parent(x)
    \/ \E x \in Rec, i \in 1..MaxKids : Children(x, i)
    \/ \E x \in Rec : Drop(x)

Spec == Init /\ [][Next]_vars

\* The calls of the tests adding and get_root of tests/refcounting.rs, and
\* find, by a caller that can hold one handle more on a record: the handle
\* get_root returns beside the one it is called on.
InitRc ==
    /\ value = [r \in Rec |-> 0]
    /\ children = [r \in Rec |-> <<>>]
    /\ parent = [r \in Rec |-> None]
    /\ alive = {}
    /\ held = [r \in Rec |-> 0]
    /\ used = 0
    /\ room = MaxHandles + 1
    /\ last = Call("init", None, None, "unit", None)

NextRc ==
    \/ \E v \in Val : New(v)
    \/ \E s \in Rec, c \in Rec : AddChild(s, c)
    \/ \E x \in Rec, v \in Val : Find(x, v)
    \/ \E x \in Rec : GetRoot(x)
    \/ \E x \in Rec : Drop(x)

SpecRc == InitRc /\ [][NextRc]_vars

----------------------------------------------------------------------------
(* The claims *)

\* The records after the step.
PostHeap == [value |-> value', children |-> children', parent |-> parent', alive |-> alive']

Values(H, S) == {H.value[r] : r \in S}

\* The last call was op and it returned res.
Did(op, res) == last.op = op /\ last.res = res

\* The step is a call of op that returns res.
Does(op, res) == last'.op = op /\ last'.res = res

\* C1: no two records of one tree hold equal values: below every alive
\* record, two different records hold different values.
C1_Uniqueness ==
    \A x \in alive : \A a, b \in Subtree(Heap, x) : a # b => value[a] # value[b]

\* C2: no record is its own descendant by child links, and no record's
\* chain of parent references comes back to it.
C2_Acyclic ==
    \A x \in alive :
        /\ x \notin Close(Heap, Kids(Heap, x))
        /\ get_root(Heap, x) # Diverges

\* C3: s.add_child(&c) returns false exactly when a value of the tree of s,
\* taken from its root, is a value of the subtree of c, c included, and true
\* otherwise.
C3_Decision ==
    [][last'.op = "add_child" =>
        LET s == last'.self
            c == last'.arg
            root == get_root(Heap, s)
            meet == /\ root # Diverges
                    /\ Values(Heap, Subtree(Heap, root))
                         \cap Values(Heap, Subtree(Heap, c)) # {}
        IN last'.res = IF meet THEN "false" ELSE "true"]_vars

\* C4: a call of add_child or add_leaf that returns false changes no child
\* list, no parent reference and no record.
C4_RejectionNoOp ==
    [][(Does("add_child", "false") \/ Does("add_leaf", "false")) =>
        /\ children' = children
        /\ parent' = parent
        /\ value' = value
        /\ alive' = alive]_vars

\* C4: add_child has returned false on a candidate whose value the tree has.
C4_Witness ==
    /\ Did("add_child", "false")
    /\ last.self # last.arg
    /\ value[last.arg] \in Values(Heap, Subtree(Heap, last.self))

\* C5: when p.add_child(&c) returns true, c.parent() is p, the child list of
\* p is its former list followed by c, and the child list of c is unchanged.
C5_AttachSymmetry ==
    [][Does("add_child", "true") =>
        LET p == last'.self
            c == last'.arg
        IN /\ parentOf(PostHeap, c) = p
           /\ children'[p] = Append(children[p], c)
           /\ children'[c] = children[c]]_vars

\* C6: the record h that remove_node returns has no parent: h.parent() is
\* none and h.get_root() is h.
C6_Detached ==
    Did("remove_node", "some") =>
        /\ parentOf(Heap, last.node) = None
        /\ get_root(Heap, last.node) = last.node

\* C7: when x.remove_node(v) returns h, the child list of the parent of h
\* is one shorter, h is the record x.find(v) finds before the call, and
\* find(v) from the root of x before the call returns none after it.
C7_RemovesFound ==
    [][Does("remove_node", "some") =>
        LET x == last'.self
            v == last'.arg
            h == last'.node
            node == find(Heap, x, v)
            p == parentOf(Heap, node)
            root == get_root(Heap, x)
        IN /\ Len(children'[p]) = Len(children[p]) - 1
           /\ h = node
           /\ root # Diverges => find(PostHeap, root, v) = None]_vars

\* C8: x.remove_node(v) returns none and changes no child list and no
\* parent reference when no record of the subtree of x holds v, and when
\* the record find returns has no parent or is in no child list.
C8_RemoveFails ==
    [][last'.op = "remove_node" =>
        LET x == last'.self
            v == last'.arg
            node == find(Heap, x, v)
            absent == v \notin Values(Heap, Subtree(Heap, x))
            root == /\ node \in Rec
                    /\ \/ parentOf(Heap, node) = None
                       \/ Slots(children, alive, node) = 0
        IN absent \/ root =>
            /\ last'.res = "none"
            /\ children' = children
            /\ parent' = parent]_vars

\* C9: when remove_node returns h, the child lists of the subtree of h and
\* the parent references of the descendants of h are unchanged, and in the
\* other records the only change is that one slot holding h is gone from the
\* child list of its parent.
C9_RemovalFrame ==
    [][Does("remove_node", "some") =>
        LET h == last'.node
            sub == Subtree(Heap, h)
        IN /\ \A r \in sub : children'[r] = children[r]
           /\ \A r \in sub \ {h} : parent'[r] = parent[r]
           /\ \E p \in alive : \E idx \in DOMAIN children[p] :
                /\ children[p][idx] = h
                /\ children'[p] = remove(children[p], idx)
                /\ \A r \in Rec \ {p} : children'[r] = children[r]
           /\ \A r \in Rec \ {h} : parent'[r] = parent[r]]_vars

\* The records of the subtree of x in the order of a pre-order walk, for a
\* subtree without loops.
RECURSIVE PreOrder(_, _), PreOrderEach(_, _, _)
PreOrder(H, x) == <<x>> \o PreOrderEach(H, H.children[x], 1)
PreOrderEach(H, kids, i) ==
    IF i > Len(kids) THEN <<>>
    ELSE PreOrder(H, kids[i]) \o PreOrderEach(H, kids, i + 1)

\* C10: x.find(v) returns none exactly when no record of the subtree of x
\* holds v, and else the first record holding v of the pre-order walk of
\* the subtree of x.
C10_FindPreOrder ==
    [][last'.op = "find" =>
        LET x == last'.self
            v == last'.arg
            sub == Subtree(Heap, x)
        IN IF v \notin Values(Heap, sub) THEN last'.res = "none"
           ELSE /\ last'.res = "some"
                /\ value[last'.node] = v
                /\ last'.node \in sub
                /\ ~Loops(Heap, x) =>
                    LET walk == PreOrder(Heap, x)
                    IN \E i \in DOMAIN walk :
                        /\ walk[i] = last'.node
                        /\ \A j \in 1..(i - 1) : value[walk[j]] # v]_vars

\* C11: for every handle n, n.get_root() returns a record root, root.parent()
\* is none, root.get_root() is root, and a record and its parent have the
\* same root.
C11_RootClosure ==
    \A n \in Handles :
        LET root == get_root(Heap, n)
        IN /\ root # Diverges
           /\ parentOf(Heap, root) = None
           /\ get_root(Heap, root) = root
           /\ parentOf(Heap, n) # None => get_root(Heap, parentOf(Heap, n)) = root

\* C12: get_root returns on every record: the parent references from it
\* reach a record without parent.
C12_GetRootReturns ==
    /\ \A x \in alive : \E r \in alive : get_root(Heap, x) = r
    /\ ~Did("get_root", "overflow")

\* Node::rc_count, which tests/refcounting.rs calls: the strong count of the
\* record of the handle.
rc_count(x) == StrongCount(children, alive, held, x)

\* rc_count after the step.
rc_count_post(x) == StrongCount(children', alive', held', x)

\* C13: the strong count of a record follows its handles and its slots: new
\* starts it at 1, a true add_child adds 1 to the candidate's and leaves the
\* others (that of the new parent too), a handle that get_root or find
\* returns adds 1 to its record's while the caller keeps it, a drop takes 1
\* off; and the records with a count above 0 are the alive ones.
C13_StrongCount ==
    [][/\ Does("new", "some") => rc_count_post(last'.node) = 1
       /\ Does("add_child", "true") =>
            \A r \in alive :
                rc_count_post(r) = rc_count(r) + (IF r = last'.arg THEN 1 ELSE 0)
       /\ (Does("get_root", "some") \/ Does("find", "some")) =>
            \A r \in alive :
                rc_count_post(r) = rc_count(r)
                    + (IF r = last'.node /\ held[r] < room THEN 1 ELSE 0)
       /\ Does("drop", "unit") /\ last'.self \in alive' =>
            rc_count_post(last'.self) = rc_count(last'.self) - 1
       /\ \A r \in Rec : r \in alive' <=> rc_count_post(r) > 0]_vars

\* C13: get_root on a root has returned a second handle on it, and the
\* record held by one handle and one slot counts 2.
C13_Witness ==
    /\ Did("get_root", "some")
    /\ last.node = last.self
    /\ held[last.node] = 2
    /\ rc_count(last.node) = 2
    /\ \E c \in alive :
        /\ parentOf(Heap, c) = last.node
        /\ held[c] = 1
        /\ Slots(children, alive, c) = 1
        /\ rc_count(c) = 2

\* C14: every alive record is reachable by child links from a record a
\* handle is on: a detached subtree whose handles are gone is released.
C14_OwnershipRelease == \A r \in alive : r \in Close(Heap, Handles)

\* Handle equality by the values of the records, as Rc<RawNode> == Rc<RawNode>
\* compares them.
node_eq_by_value(a, b) == eq(Heap, a, b)

\* Node == Node, which the doc test of Node::new uses: the handles wrap the
\* same record.
node_eq(a, b) == a = b

C16_NoAbort ==
    /\ \A c \in alive :
        parentOf(Heap, c) # None => c \in Kids(Heap, parentOf(Heap, c))
    /\ last.res # "panic"

\* The records of the tree that holds x: those below its root, and those
\* below x.
Tree(H, x) ==
    IF get_root(H, x) = Diverges THEN Subtree(H, x)
    ELSE Subtree(H, get_root(H, x)) \cup Subtree(H, x)

\* C17: add_leaf(v) on x returns true exactly when no record of the tree that
\* holds x holds v; on true a new childless record holding v is the last
\* child of x with parent x, on false no record changes.
C17_AddLeaf ==
    [][\A r \in {"true", "false"} :
        Does("add_leaf", r) =>
            LET x == last'.self
                v == last'.arg
            IN /\ r = "true" <=> v \notin Values(Heap, Tree(Heap, x))
               /\ r = "true" =>
                    LET c == last'.node
                    IN /\ c \notin alive
                       /\ alive' = alive \cup {c}
                       /\ value' = [value EXCEPT ![c] = v]
                       /\ children' = [children EXCEPT ![x] = Append(@, c),
                                                       ![c] = <<>>]
                       /\ parent' = [parent EXCEPT ![c] = x]
               /\ r = "false" =>
                    UNCHANGED <<value, children, parent, alive>>]_vars

\* C18: when the handle dropped was the last strong holder of p, p is
\* released, and on every record c that stays alive with p as its parent
\* reference, parent() is none and get_root() is c.
C18_DanglingParent ==
    [][Does("drop", "unit") =>
        LET p == last'.self
        IN held[p] = 1 /\ Slots(children, alive, p) = 0 =>
            /\ p \notin alive'
            /\ \A c \in alive' :
                parent[c] = p =>
                    /\ parent'[c] = p
                    /\ parentOf(PostHeap, c) = None
                    /\ get_root(PostHeap, c) = c]_vars

\* C18: the last handle on a record has been dropped while a handle on one
\* of its children is kept: the child is alive, its parent reference dangles.
C18_Witness ==
    /\ Did("drop", "unit")
    /\ last.self \notin alive
    /\ \E c \in Handles :
        /\ parent[c] = last.self
        /\ parentOf(Heap, c) = None
        /\ get_root(Heap, c) = c

\* C19: every record is in at most one child-list slot over all records.
C19_SingleSlot == \A r \in alive : Slots(children, alive, r) <= 1

\* C20: when remove_node has just returned h, taken from the child list of
\* p, in a tree without equal values, p.add_child(&h) returns true, makes h
\* the last child of p with parent p, and changes nothing else: the tree is
\* the one before the removal, with h moved to the end of the child list.
C20_RoundTrip ==
    [][(/\ Did("remove_node", "some")
        /\ last'.op = "add_child"
        /\ last'.arg = last.node
        /\ last'.self = parent[last.node]
        /\ \A a, b \in Tree(Heap, last'.self) \cup Subtree(Heap, last.node) :
            a # b => value[a] # value[b]) =>
        LET p == last'.self
            h == last.node
        IN /\ last'.res = "true"
           /\ children' = [children EXCEPT ![p] = Append(@, h)]
           /\ parent' = parent
           /\ parentOf(PostHeap, h) = p
           /\ value' = value
           /\ alive' = alive]_vars

====
